---- MODULE Spec2Model ----
(***************************************************************************)
(* EbookAI: the generation pipeline and the editor handlers of            *)
(* EbookGenerator.tsx (handleGenerate, handleDownload, handleRefine,       *)
(* addFAQ, with the backend calls of services/gemini.ts), and the page     *)
(* estimator and the renderer of services/pdf.ts.                          *)
(*                                                                         *)
(* Seven specifications:                                                   *)
(*   Spec     the handleGenerate pipeline, one await per step, against a   *)
(*            backend that may answer anything;                            *)
(*   FairSpec Spec plus the fairness of the event loop: a pending await is *)
(*            eventually resumed;                                          *)
(*   EstSpec  estimatePageCount applied to bounded chapter lists, and to   *)
(*            the lists obtained by editing them;                          *)
(*   EditSpec the editor handlers handleRefine and addFAQ on the chapters  *)
(*            of a finished run, their calls interleaved;                  *)
(*   RenderSpec createPDF applied to bounded chapter lists, options and    *)
(*            drawing layers;                                              *)
(*   SessionSpec the component in use after a first run: further runs of   *)
(*            handleGenerate, the editor handlers and the marketing        *)
(*            promises, interleaved as the page allows;                    *)
(*   DownloadSpec handleDownload between the steps of handleGenerate.      *)
(***************************************************************************)
EXTENDS Integers, Sequences, FiniteSets, TLC

VARIABLES
  \* React state of the component (EbookGenerator.tsx:78-101)
  state, error, outline, currentChapterIndex, generatedChapters,
  marketingAssets, estimatedPages, fileSizeMB,
  \* the activation of handleGenerate: its position and its locals
  pc, topicArg, isPrototype, finalTarget, generatedOutline, pagesPerChapter,
  chapters, i, content, currentEstimated, image,
  \* marketing promises not yet settled (the run that started each)
  mkPending,
  \* observation: runs started, backend calls of the current run, progress
  \* updates of the current run, the call that failed
  runs, calls, enrichCalls, imageCalls, updates, failCause,
  \* EstSpec: the chapter list under estimation, before and after an edit
  eChapters, eOptions, eIndex, ePages, eBefore, ePagesBefore, eOp, eSteps,
  \* EditSpec: the editor calls in flight, how many were started, the last
  \* one that completed
  edPending, edStarted, edLast,
  \* activations of handleGenerate that a later one has superseded and that
  \* are not over; the run whose chapter objects the visible list holds
  \* (0: none of this session); how the last handleDownload ended
  stale, shown, dlLast,
  \* RenderSpec: the arguments of createPDF, the drawing layer, the document
  rChapters, rOptions, rLayer, rDoc, rSteps

reactVars == <<state, error, outline, currentChapterIndex, generatedChapters,
               marketingAssets, estimatedPages, fileSizeMB>>
runVars   == <<pc, topicArg, isPrototype, finalTarget, generatedOutline,
               pagesPerChapter, chapters, i, content, currentEstimated, image>>
obsVars   == <<runs, calls, enrichCalls, imageCalls, updates, failCause>>
estVars   == <<eChapters, eOptions, eIndex, ePages, eBefore, ePagesBefore, eOp,
               eSteps>>
editVars  == <<edPending, edStarted, edLast, dlLast>>
sessionVars == <<stale, shown>>
renderVars == <<rChapters, rOptions, rLayer, rDoc, rSteps>>
vars      == <<reactVars, runVars, mkPending, obsVars, estVars, editVars,
               sessionVars, renderVars>>

----------------------------------------------------------------------------
(* Bounds of the model *)

\* chapters in an outline the backend returns
MaxChapters == 4
\* handleGenerate invocations that pass validation
MaxRuns == 1
\* enrichment calls counted for one chapter (the counter saturates there)
MaxEnrich == 2
\* chapters of a list given to the estimator in EstSpec
MaxEstChapters == 2
\* edits applied to one chapter of the list in EstSpec
MaxEdits == 2
\* chapters of the list the editor works on in EditSpec
MaxEditChapters == 2
\* editor calls (handleRefine, addFAQ) started in EditSpec
MaxEditorCalls == 3
\* chapters in an outline the backend returns in SessionSpec
MaxSessionChapters == 2
\* handleGenerate invocations in SessionSpec, the finished one included
MaxSessionRuns == 3
\* editor calls started in SessionSpec
MaxSessionEdits == 1
\* chapters of a list given to createPDF in RenderSpec
MaxRenderChapters == 2
\* calls of createPDF after the first in RenderSpec
MaxRenders == 2

----------------------------------------------------------------------------
(* JavaScript values *)

Undefined == "undefined"
Null == "null"

\* a number: an integer, NaN or Infinity; every comparison with NaN is false
Num(n) == [kind |-> "int", v |-> n]
NaN == [kind |-> "nan", v |-> 0]
Infinity == [kind |-> "inf", v |-> 0]
NumLt(a, b) ==
  /\ a.kind = "int"
  /\ \/ b.kind = "int" /\ a.v < b.v
     \/ b.kind = "inf"
NumGt(a, b) == NumLt(b, a)
\* k * x, for an integer k > 0
NumTimes(k, x) == IF x.kind = "int" THEN Num(k * x.v) ELSE x
\* Math.ceil(x / n), for an integer n >= 0 and x not negative
NumCeilDiv(x, n) ==
  IF x.kind = "nan" THEN NaN
  ELSE IF n = 0 THEN (IF x.kind = "int" /\ x.v = 0 THEN NaN ELSE Infinity)
  ELSE IF x.kind = "inf" THEN Infinity
  ELSE Num((x.v + n - 1) \div n)

CeilDiv(a, b) == (a + b - 1) \div b

\* a string is a sequence of runs [ch, n]: n >= 1 copies of the character ch,
\* with ch one of "a" (any visible character), " " and "\n"
R(c, n) == <<[ch |-> c, n |-> n]>>

RECURSIVE StrLength(_)
StrLength(s) == IF s = <<>> THEN 0 ELSE s[1].n + StrLength(Tail(s))

IsSpace(c) == c \in {" ", "\n"}

\* s + c, for one character c
AppendChar(s, c) ==
  IF s # <<>> /\ s[Len(s)].ch = c
  THEN [s EXCEPT ![Len(s)].n = @ + 1]
  ELSE s \o R(c, 1)

\* s + t
Concat(s, t) ==
  IF s # <<>> /\ t # <<>> /\ s[Len(s)].ch = t[1].ch
  THEN SubSeq(s, 1, Len(s) - 1) \o R(t[1].ch, s[Len(s)].n + t[1].n) \o Tail(t)
  ELSE s \o t

\* s.trim(): leading and trailing whitespace removed
RECURSIVE TrimStart(_)
TrimStart(s) ==
  IF s = <<>> THEN <<>>
  ELSE IF IsSpace(s[1].ch) THEN TrimStart(Tail(s)) ELSE s

RECURSIVE TrimEnd(_)
TrimEnd(s) ==
  IF s = <<>> THEN <<>>
  ELSE IF IsSpace(s[Len(s)].ch) THEN TrimEnd(SubSeq(s, 1, Len(s) - 1)) ELSE s

Trim(s) == TrimEnd(TrimStart(s))

\* count equal paragraphs in a row, as far as the layout reads a paragraph:
\* its length, and whether paragraph.trim() === ""
Paras(n, b, k) == [len |-> n, blank |-> b, count |-> k]
Para(n, b) == <<Paras(n, b, 1)>>

EmptyParas(k) == IF k = 0 THEN <<>> ELSE <<Paras(0, TRUE, k)>>

\* s.split('\n\n'), scanning left to right: cur is the paragraph being read,
\* pend = 1 when its last character is a newline not yet part of a separator.
\* A run of newlines after it holds (pend + n) \div 2 separators; an odd
\* newline left over starts the next paragraph.
RECURSIVE SplitFrom(_, _, _, _)
SplitFrom(s, len, blank, pend) ==
  IF s = <<>> THEN Para(len, blank)
  ELSE LET t == s[1] IN
    IF t.ch # "\n"
    THEN SplitFrom(Tail(s), len + t.n, blank /\ IsSpace(t.ch), 0)
    ELSE LET total == pend + t.n
             seps  == total \div 2
             left  == total % 2
         IN IF seps = 0
            THEN SplitFrom(Tail(s), len + 1, blank, 1)
            ELSE Para(len - pend, blank) \o EmptyParas(seps - 1)
                 \o SplitFrom(Tail(s), left, TRUE, left)

\* content.split('\n\n')
SplitParagraphs(s) == SplitFrom(s, 0, TRUE, 0)

\* truthiness of an optional string given by name (chapter.image)
Truthy(x) == x \notin {Undefined, ""}

----------------------------------------------------------------------------
(* services/pdf.ts: the page estimator *)

margin == 20
pageWidth == 210
lineHeight == 7
pageHeight == 297
maxLineWidth == pageWidth - margin * 2
contentHeightPerPage == pageHeight - margin * 2 - 20

NoChart == [defined |-> FALSE, type |-> "", title |-> "", data |-> <<>>]
SomeChart == [defined |-> TRUE, type |-> "bar", title |-> "t",
              data |-> <<[label |-> "l", value |-> 1]>>]

Chapter(t, c, img, ch) == [title |-> t, content |-> c, image |-> img, chart |-> ch]

\* Math.ceil((p.length * 0.25) / maxLineWidth)
ParagraphLines(p) == CeilDiv(p.len, 4 * maxLineWidth)

RECURSIVE ParagraphsHeight(_)
ParagraphsHeight(ps) ==
  IF ps = <<>> THEN 0
  ELSE ps[1].count * (ParagraphLines(ps[1]) * lineHeight + 5)
       + ParagraphsHeight(Tail(ps))

\* currentY of one chapter at the end of the forEach body, in 1/16 mm
\* ((maxLineWidth * 9) / 16 is not a whole number of mm)
ChapterCurrentY16(chapter) ==
  20 * 16
  + (IF Truthy(chapter.image) THEN maxLineWidth * 9 + 10 * 16 ELSE 0)
  + 16 * ParagraphsHeight(SplitParagraphs(chapter.content))

\* a variant that lays the chart out below the text (60 mm) instead of
\* giving it a page of its own
ChapterPagesChartInline(chapter) ==
  CeilDiv(ChapterCurrentY16(chapter)
            + (IF chapter.chart.defined THEN 60 * 16 ELSE 0),
          contentHeightPerPage * 16)

ChapterPages(chapter) ==
  CeilDiv(ChapterCurrentY16(chapter), contentHeightPerPage * 16)
  + (IF chapter.chart.defined THEN 1 ELSE 0)

RECURSIVE SumChapterPages(_)
SumChapterPages(chs) ==
  IF chs = <<>> THEN 0 ELSE ChapterPages(chs[1]) + SumChapterPages(Tail(chs))

\* a variant that counts the cover only, not the table of contents
estimatePageCountCoverOnly(chs, options) == 1 + SumChapterPages(chs)

estimatePageCount(chs, options) == 2 + SumChapterPages(chs)

----------------------------------------------------------------------------
(* services/pdf.ts: the renderer, createPDF.  The document is the list of  *)
(* its pages with what was drawn on each; lengths are in 1/16 mm.  The     *)
(* drawing layer (jsPDF) is a record: how many characters of body text it  *)
(* fits on a line, how many lines a heading takes, whether setTextColor    *)
(* throws on a channel that is not a number, whether addImage throws.      *)

\* the layer whose splitTextToSize gives the line count estimatePageCount
\* assumes (0.25 mm per character)
EstimatorLayer == [perLine |-> 4 * maxLineWidth, headingLines |-> 1,
                   strict |-> TRUE, imageOk |-> TRUE]
\* 2 mm per character, headings on two lines
WideLayer == [perLine |-> maxLineWidth \div 2, headingLines |-> 2,
              strict |-> FALSE, imageOk |-> TRUE]
\* addImage throws, setTextColor takes anything
LaxLayer == [perLine |-> 4 * maxLineWidth, headingLines |-> 1,
             strict |-> FALSE, imageOk |-> FALSE]

\* the characters of the color strings of the model
ColorChars(color) ==
  CASE color = "#4f46e5" -> <<"#", "4", "f", "4", "6", "e", "5">>
    [] color = "#059669" -> <<"#", "0", "5", "9", "6", "6", "9">>
    [] color = "#fff" -> <<"#", "f", "f", "f">>
    [] color = "red" -> <<"r", "e", "d">>
    [] color = "#12345" -> <<"#", "1", "2", "3", "4", "5">>
    [] OTHER -> <<>>

HexDigits == <<"0", "1", "2", "3", "4", "5", "6", "7", "8", "9",
               "a", "b", "c", "d", "e", "f">>
IsHexDigit(c) == \E d \in 1..16 : HexDigits[d] = c
HexValue(c) == (CHOOSE d \in 1..16 : HexDigits[d] = c) - 1

\* chars.slice(from, to)
Slice(chars, from, to) ==
  SubSeq(chars, from + 1, IF to < Len(chars) THEN to ELSE Len(chars))

\* parseInt(chars, 16): the longest prefix of hex digits, NaN when empty
RECURSIVE ReadHex(_, _, _)
ReadHex(chars, acc, count) ==
  IF chars = <<>> \/ ~IsHexDigit(chars[1]) THEN <<acc, count>>
  ELSE ReadHex(Tail(chars), acc * 16 + HexValue(chars[1]), count + 1)

parseInt16(chars) ==
  LET read == ReadHex(chars, 0, 0)
  IN IF read[2] = 0 THEN NaN ELSE Num(read[1])

\* r, g, b as createPDF and addText compute them from a color string
Channels(color) ==
  LET chars == ColorChars(color)
  IN <<parseInt16(Slice(chars, 1, 3)), parseInt16(Slice(chars, 3, 5)),
       parseInt16(Slice(chars, 5, 7))>>

Black == <<Num(0), Num(0), Num(0)>>

\* the y where a page's content starts and the limit addText breaks at
topY16 == (margin + 15) * 16
limitY16 == (pageHeight - margin - 10) * 16

\* a page: the section that added it (0 the title page, 1 the table of
\* contents, 1 + k chapter k), the calls of addHeaderFooter made on it,
\* whether something was drawn on it before the first of them, the text
\* lines and images drawn, the y of the highest and of the lowest line, the
\* bottom of the lowest image, the page-number stamps
NewPage(section) ==
  [section |-> section, hf |-> 0, early |-> FALSE, lines |-> 0, images |-> 0,
   top |-> pageHeight * 16, low |-> 0, imgLow |-> 0, stamps |-> <<>>]

\* new jsPDF(): one page; y is currentY of createPDF; inks are the channel
\* triples given to setTextColor for the text in the primary color
NewDoc(layer) ==
  [pages |-> <<NewPage(0)>>, y |-> 0, layer |-> layer, inks |-> {},
   failed |-> FALSE, stamped |-> FALSE, lateAdd |-> FALSE]

\* doc.addPage(), while section s is drawn
AddPage(d, s) ==
  [d EXCEPT !.pages = Append(@, NewPage(s)), !.lateAdd = @ \/ d.stamped]

addHeaderFooter(d) ==
  [d EXCEPT !.pages[Len(d.pages)].hf = @ + 1]

\* doc.text(line, x, d.y): one line on the current page
DrawLine(d) ==
  [d EXCEPT !.pages[Len(d.pages)] =
     [@ EXCEPT !.lines = @ + 1, !.early = @ \/ d.pages[Len(d.pages)].hf = 0,
               !.top = IF d.y < @ THEN d.y ELSE @,
               !.low = IF d.y > @ THEN d.y ELSE @]]

\* doc.setTextColor(r, g, b) with channels computed from a color string
SetInk(d, channels) ==
  [d EXCEPT !.inks = @ \cup {channels},
            !.failed = @ \/ (d.layer.strict /\ \E c \in 1..3 : channels[c].kind # "int")]

\* a variant that fills the page down to the bottom margin
LinesThatFitToMargin(d) ==
  IF d.y + lineHeight * 16 > (pageHeight - margin) * 16 THEN 0
  ELSE ((pageHeight - margin) * 16 - d.y) \div (lineHeight * 16)

\* the lines that fit at d.y before the loop of addText breaks the page:
\* a line is drawn while currentY + lineHeight <= pageHeight - margin - 10
LinesThatFit(d) ==
  IF d.y + lineHeight * 16 > limitY16 THEN 0
  ELSE (limitY16 - d.y) \div (lineHeight * 16)

\* k lines drawn one under the other from d.y on the current page
DrawLines(d, k) ==
  IF k = 0 THEN d
  ELSE [d EXCEPT
          !.pages[Len(d.pages)] =
             [@ EXCEPT !.lines = @ + k,
                       !.early = @ \/ d.pages[Len(d.pages)].hf = 0,
                       !.top = IF d.y < @ THEN d.y ELSE @,
                       !.low = IF d.y + (k - 1) * lineHeight * 16 > @
                               THEN d.y + (k - 1) * lineHeight * 16 ELSE @],
          !.y = @ + k * lineHeight * 16]

\* a variant of the loop of addText that breaks the page without drawing
\* the header and footer on the new page
RECURSIVE AddLinesBare(_, _)
AddLinesBare(d, n) ==
  IF n = 0 \/ d.failed THEN d
  ELSE LET s   == d.pages[Len(d.pages)].section
           fit == LinesThatFit(d)
       IN IF fit = 0
          THEN AddLinesBare([AddPage(d, s) EXCEPT !.y = topY16], n)
          ELSE AddLinesBare(DrawLines(d, IF n < fit THEN n ELSE fit),
                            IF n < fit THEN 0 ELSE n - fit)

\* for (const line of lines): the page is broken when the line would pass
\* pageHeight - margin - 10, then the line is drawn at currentY and
\* currentY moves down by lineHeight; the lines of one page are taken
\* together
RECURSIVE AddLines(_, _)
AddLines(d, n) ==
  IF n = 0 \/ d.failed THEN d
  ELSE LET s   == d.pages[Len(d.pages)].section
           fit == LinesThatFit(d)
       IN IF fit = 0
          THEN AddLines([addHeaderFooter(AddPage(d, s)) EXCEPT !.y = topY16], n)
          ELSE AddLines(DrawLines(d, IF n < fit THEN n ELSE fit),
                        IF n < fit THEN 0 ELSE n - fit)

\* addText(text, fontSize, isBold, align, startY, color) for a text the
\* layer splits into n lines; the result's y is the value returned
addText(d, n, startY, color) ==
  LET d1 == [d EXCEPT !.y = startY]
      d2 == IF Truthy(color) THEN SetInk(d1, Channels(color)) ELSE d1
  IN AddLines(d2, n)

\* the title page: the title in the primary color, the credit line
TitlePage(d, options) ==
  LET d1 == SetInk(d, Channels(options.primaryColor))
  IN IF d1.failed THEN d1
     ELSE DrawLine(DrawLine([d1 EXCEPT !.y = (pageHeight \div 2) * 16]))

\* the entries of the table of contents, from entry k on
RECURSIVE TocEntries(_, _, _)
TocEntries(d, chs, k) ==
  IF k > Len(chs) THEN d
  ELSE LET d1 == addText(d, 1, d.y, Undefined)
       IN TocEntries([d1 EXCEPT !.y = @ + 2 * 16], chs, k + 1)

TableOfContents(d, chs, options) ==
  LET d1 == addHeaderFooter(AddPage(d, 1))
      d2 == addText(d1, d.layer.headingLines, topY16, options.primaryColor)
  IN TocEntries([d2 EXCEPT !.y = @ + 10 * 16], chs, 1)

\* if (chapter.image) { try { ... doc.addImage(...) ... } catch (e) {} }
ChapterImage(d, chapter) ==
  LET imgHeight16 == maxLineWidth * 9
      s  == d.pages[Len(d.pages)].section
      d1 == IF d.y + imgHeight16 > limitY16
            THEN [addHeaderFooter(AddPage(d, s)) EXCEPT !.y = topY16]
            ELSE d
  IN IF ~Truthy(chapter.image) THEN d
     ELSE IF ~d.layer.imageOk THEN d1
     ELSE [d1 EXCEPT !.pages[Len(d1.pages)] =
             [@ EXCEPT !.images = @ + 1,
                       !.early = @ \/ d1.pages[Len(d1.pages)].hf = 0,
                       !.imgLow = IF d1.y + imgHeight16 > @
                                  THEN d1.y + imgHeight16 ELSE @],
           !.y = @ + imgHeight16 + 10 * 16]

\* for (const paragraph of paragraphs): blank ones are skipped, the others
\* drawn by addText and followed by 5 mm
RECURSIVE ChapterParagraphs(_, _)
ChapterParagraphs(d, ps) ==
  IF ps = <<>> THEN d
  ELSE IF ps[1].blank THEN ChapterParagraphs(d, Tail(ps))
  ELSE LET n  == CeilDiv(ps[1].len, d.layer.perLine)
           d1 == addText(d, n, d.y, Undefined)
       IN ChapterParagraphs([d1 EXCEPT !.y = @ + 5 * 16], Tail(ps))

\* if (chapter.chart) { ... }: the heading in the primary color, one line
\* per data item
ChapterChart(d, chapter, options) ==
  LET s  == d.pages[Len(d.pages)].section
      d1 == IF d.y + 60 * 16 > (pageHeight - margin) * 16
            THEN [addHeaderFooter(AddPage(d, s)) EXCEPT !.y = topY16]
            ELSE d
      d2 == addText(d1, 1, d1.y, options.primaryColor)
  IN IF ~chapter.chart.defined THEN d
     ELSE AddLines([d2 EXCEPT !.y = @ + 10 * 16], Len(chapter.chart.data))

\* a variant that starts a chapter where the previous section ended
RenderChapterInline(d, chapter, k, options) ==
  LET d2 == addText(d, d.layer.headingLines, d.y, options.primaryColor)
      d3 == ChapterImage([d2 EXCEPT !.y = @ + 10 * 16], chapter)
      d4 == ChapterParagraphs(d3, SplitParagraphs(chapter.content))
  IN ChapterChart(d4, chapter, options)

\* the body of the chapter loop for chapter k (1-based)
RenderChapter(d, chapter, k, options) ==
  LET d1 == addHeaderFooter(AddPage(d, 1 + k))
      d2 == addText(d1, d.layer.headingLines, topY16, options.primaryColor)
      d3 == ChapterImage([d2 EXCEPT !.y = @ + 10 * 16], chapter)
      d4 == ChapterParagraphs(d3, SplitParagraphs(chapter.content))
  IN ChapterChart(d4, chapter, options)

RECURSIVE RenderChapters(_, _, _, _)
RenderChapters(d, chs, k, options) ==
  IF k > Len(chs) THEN d
  ELSE RenderChapters(RenderChapter(d, chs[k], k, options), chs, k + 1, options)

\* a variant that stamps every page with its own number as the total
PageNumbersRunning(d) ==
  [d EXCEPT !.pages = [n \in 1..Len(d.pages) |->
                         [d.pages[n] EXCEPT !.stamps = Append(@, <<n, n>>)]],
            !.stamped = TRUE]

\* the last pass: 'Page n sur totalPages' on every page
PageNumbers(d) ==
  [d EXCEPT !.pages = [n \in 1..Len(d.pages) |->
                         [d.pages[n] EXCEPT !.stamps = Append(@, <<n, Len(d.pages)>>)]],
            !.stamped = TRUE]

\* createPDF(title, chapters, options) on a drawing layer; when the layer
\* throws, the document is left as it was at the throw (failed)
createPDF(title, chs, options, layer) ==
  LET d1 == TitlePage(NewDoc(layer), options)
      d2 == TableOfContents(d1, chs, options)
      d3 == RenderChapters(d2, chs, 1, options)
  IN IF d1.failed THEN d1 ELSE PageNumbers(d3)

----------------------------------------------------------------------------
(* EbookGenerator.tsx: inputs of the form *)

\* the value of the topic field
TopicInputs == { <<>>, R(" ", 1), R("a", 2) }

\* the value of the custom page field, an <input type="number">:
\* "", "5", "250" and ".5"
CustomPagesInputs ==
  { <<>>, R("5", 1), R("2", 1) \o R("5", 1) \o R("0", 1),
    R(".", 1) \o R("5", 1) }

PAGE_PRESETS == <<10, 15, 20, 25, 30, 40, 50, 60, 80, 100, 150, 200>>

\* the preset chosen in the dropdown
TargetPagesInputs == { PAGE_PRESETS[1] }

Digits == <<"0", "1", "2", "3", "4", "5", "6", "7", "8", "9">>
IsDigit(c) == \E d \in 1..10 : Digits[d] = c
DigitValue(c) == (CHOOSE d \in 1..10 : Digits[d] = c) - 1

\* the digits at the head of s, read in base 10: <<value, number of digits>>
RECURSIVE ReadDigits(_, _, _)
ReadDigits(s, acc, count) ==
  IF s = <<>> \/ ~IsDigit(s[1].ch) THEN <<acc, count>>
  ELSE ReadDigits(
         IF s[1].n = 1 THEN Tail(s) ELSE [s EXCEPT ![1].n = @ - 1],
         acc * 10 + DigitValue(s[1].ch), count + 1)

\* parseInt(s): leading whitespace skipped, an optional sign, then the longest
\* prefix of digits; NaN when there is no digit
parseInt(s) ==
  LET t    == TrimStart(s)
      neg  == t # <<>> /\ t[1].ch = "-"
      sign == t # <<>> /\ t[1].ch \in {"-", "+"}
      body == IF ~sign THEN t
              ELSE IF t[1].n = 1 THEN Tail(t) ELSE [t EXCEPT ![1].n = @ - 1]
      read == ReadDigits(body, 0, 0)
  IN IF read[2] = 0 THEN NaN
     ELSE Num(IF neg THEN 0 - read[1] ELSE read[1])

\* const finalTarget = customPages ? parseInt(customPages) : targetPages
FinalTarget(customPages, targetPages) ==
  IF customPages # <<>> THEN parseInt(customPages) ELSE Num(targetPages)

\* if (!topic.trim()) return
TopicRejected(topic) == Trim(topic) = <<>>

\* if (finalTarget < 10 || finalTarget > 200)
TargetRejected(target) == NumLt(target, Num(10)) \/ NumGt(target, Num(200))

DefaultOptions ==
  [primaryColor |-> "#4f46e5", font |-> "helvetica",
   headerText |-> "EbookAI SaaS Premium", footerText |-> "Confidentiel - 2026",
   watermark |-> "", quality |-> "high", noCompression |-> TRUE]

pdfOptions == DefaultOptions

----------------------------------------------------------------------------
(* services/gemini.ts: what the backend may answer *)

\* a chapter plan of an outline; a plan may come without its sections
Plan(k, withSections) ==
  [title |-> ToString(k), hasSections |-> withSections,
   sections |-> IF withSections THEN <<"s">> ELSE <<>>]

NoOutline == [kind |-> "null", title |-> "", chapters |-> <<>>]
\* JSON.parse("{}"): an object with no title and no chapters
EmptyObject == [kind |-> "empty", title |-> "", chapters |-> <<>>]
\* an outline of n chapters; when broken > 0, chapter broken has no sections
OutlineOf(n, broken) ==
  [kind |-> "outline", title |-> "T",
   chapters |-> [k \in 1..n |-> Plan(k, k # broken)]]

\* the values JSON.parse may give generateOutline
OutlineValues ==
  {EmptyObject} \cup {OutlineOf(n, 0) : n \in 0..MaxChapters}
  \cup {OutlineOf(n, 2) : n \in 2..MaxChapters}

\* texts the backend may return
\* a chapter of two paragraphs: under 15,000 characters, one page
ShortText == R("a", 300) \o R("\n", 2) \o R("a", 300)
\* one paragraph of 15,000 characters: one page
LongText == R("a", 15000)
\* two lines separated by 200 newlines: 202 characters, three pages
PageyText == R("a", 1) \o R("\n", 200) \o R("a", 1)

\* response.text of generateChapterContent (<<>>: no text)
ChapterTexts == { <<>>, PageyText }
\* response.text of refineText (<<>>: no text)
RefineTexts == { <<>>, ShortText, LongText, PageyText }

ImageData == "data:image/png;base64"

\* return response.text || ""
generateChapterContent(text) == text
\* return response.text || text
refineText(text, original) == IF text = <<>> THEN original ELSE text

----------------------------------------------------------------------------
(* EbookGenerator.tsx: handleGenerate *)

NoCalls == [outline |-> 0, chapter |-> 0, image |-> 0, marketing |-> 0,
            pdf |-> 0]

NoAssets == [kind |-> "null", run |-> 0]

\* the variables a step of handleGenerate reads and writes, as one record
Cur ==
  [state |-> state, error |-> error, outline |-> outline,
   currentChapterIndex |-> currentChapterIndex,
   generatedChapters |-> generatedChapters,
   marketingAssets |-> marketingAssets, estimatedPages |-> estimatedPages,
   fileSizeMB |-> fileSizeMB,
   pc |-> pc, topicArg |-> topicArg, isPrototype |-> isPrototype,
   finalTarget |-> finalTarget, generatedOutline |-> generatedOutline,
   pagesPerChapter |-> pagesPerChapter, chapters |-> chapters, i |-> i,
   content |-> content, currentEstimated |-> currentEstimated,
   image |-> image, mkPending |-> mkPending, stale |-> stale,
   shown |-> shown,
   runs |-> runs, calls |-> calls, enrichCalls |-> enrichCalls,
   imageCalls |-> imageCalls,
   updates |-> updates, failCause |-> failCause]

Commit(m) ==
  /\ state' = m.state
  /\ error' = m.error
  /\ outline' = m.outline
  /\ currentChapterIndex' = m.currentChapterIndex
  /\ generatedChapters' = m.generatedChapters
  /\ marketingAssets' = m.marketingAssets
  /\ estimatedPages' = m.estimatedPages
  /\ fileSizeMB' = m.fileSizeMB
  /\ pc' = m.pc
  /\ topicArg' = m.topicArg
  /\ isPrototype' = m.isPrototype
  /\ finalTarget' = m.finalTarget
  /\ generatedOutline' = m.generatedOutline
  /\ pagesPerChapter' = m.pagesPerChapter
  /\ chapters' = m.chapters
  /\ i' = m.i
  /\ content' = m.content
  /\ currentEstimated' = m.currentEstimated
  /\ image' = m.image
  /\ mkPending' = m.mkPending
  /\ stale' = m.stale
  /\ shown' = m.shown
  /\ runs' = m.runs
  /\ calls' = m.calls
  /\ enrichCalls' = m.enrichCalls
  /\ imageCalls' = m.imageCalls
  /\ updates' = m.updates
  /\ failCause' = m.failCause
  /\ UNCHANGED <<estVars, editVars, renderVars>>

\* err.message of what the try block can throw
ErrorMessage(cause) ==
  CASE cause = "outline_parse" -> "Erreur lors de la generation du plan."
    [] cause = "outline_shape" -> "Cannot read properties of undefined (reading 'length')"
    [] cause = "sections" -> "Cannot read properties of undefined (reading 'map')"
    [] OTHER -> ""

\* a variant of the catch block that also clears the visible chapter list
CatchDiscards(m, cause) ==
  [m EXCEPT !.error = IF ErrorMessage(cause) # "" THEN ErrorMessage(cause)
                      ELSE "Une erreur est survenue.",
            !.generatedChapters = <<>>,
            !.state = "error", !.pc = "failed", !.failCause = cause]

\* catch (err): setError(err.message || "Une erreur est survenue."); setState('error')
Catch(m, cause) ==
  [m EXCEPT !.error = IF ErrorMessage(cause) # "" THEN ErrorMessage(cause)
                      ELSE "Une erreur est survenue.",
            !.state = "error", !.pc = "failed", !.failCause = cause]

\* after the loop: setState('pdf'), the marketing call is started and not
\* awaited, createPDF runs and its promise is awaited
Finish(m) ==
  [m EXCEPT !.state = "pdf",
            !.calls.marketing = @ + 1,
            !.mkPending = @ \cup {m.runs},
            !.calls.pdf = @ + 1,
            !.pc = "pdf"]

\* the head of the for loop at index k (0-based), up to the await of
\* generateChapterContent
StartChapter(m, k) ==
  IF k < Len(m.generatedOutline.chapters)
  THEN LET m1 == [m EXCEPT !.i = k, !.currentChapterIndex = k] IN
       IF ~m.generatedOutline.chapters[k + 1].hasSections
       THEN Catch(m1, "sections")
       ELSE [m1 EXCEPT !.calls.chapter = @ + 1, !.enrichCalls = 0,
                       !.pc = "chapter"]
  ELSE Finish([m EXCEPT !.i = k, !.enrichCalls = 0])

\* a variant that puts the new chapter at the head of the list (unshift)
PushChapterFront(m) ==
  LET title == m.generatedOutline.chapters[m.i + 1].title
      chs   == <<Chapter(title, m.content, m.image, NoChart)>> \o m.chapters
      pages == estimatePageCount(chs, pdfOptions)
      m1    == [m EXCEPT !.chapters = chs, !.generatedChapters = chs,
                         !.shown = m.runs,
                         !.estimatedPages = pages,
                         !.updates = Append(@, [chapters |-> chs, pages |-> pages,
                                                state |-> m.state])]
  IN StartChapter(m1, m.i + 1)

\* chapters.push(...); setGeneratedChapters([...chapters]);
\* setEstimatedPages(estimatePageCount(chapters, pdfOptions)); then i++
PushChapter(m) ==
  LET title == m.generatedOutline.chapters[m.i + 1].title
      chs   == Append(m.chapters, Chapter(title, m.content, m.image, NoChart))
      pages == estimatePageCount(chs, pdfOptions)
      m1    == [m EXCEPT !.chapters = chs, !.generatedChapters = chs,
                         !.shown = m.runs,
                         !.estimatedPages = pages,
                         !.updates = Append(@, [chapters |-> chs, pages |-> pages,
                                                state |-> m.state])]
  IN StartChapter(m1, m.i + 1)

\* a variant that illustrates every chapter in both modes
WantsImageAlways(proto, k) == k % 1 = 0

\* i % (isPrototype ? 1 : 3) === 0
WantsImage(proto, k) == k % (IF proto THEN 1 ELSE 3) = 0

\* let image; if (...) { try { image = await generateImage(...) } catch (e) {} }
Illustrate(m) ==
  IF WantsImage(m.isPrototype, m.i)
  THEN [m EXCEPT !.calls.image = @ + 1,
                 !.imageCalls = [@ EXCEPT ![m.i + 1] = @ + 1],
                 !.image = Undefined,
                 !.pc = "image"]
  ELSE PushChapter([m EXCEPT !.image = Undefined])

\* a variant of the loop condition without the prototype test
EnrichConditionAnyMode(m) ==
  /\ NumLt(Num(m.currentEstimated), NumTimes(m.i + 1, m.pagesPerChapter))
  /\ StrLength(m.content) < 15000

\* !isPrototype && currentEstimated < (i + 1) * pagesPerChapter
\*               && content.length < 15000
EnrichCondition(m) ==
  /\ ~m.isPrototype
  /\ NumLt(Num(m.currentEstimated), NumTimes(m.i + 1, m.pagesPerChapter))
  /\ StrLength(m.content) < 15000

Saturate(n) == IF n < MaxEnrich THEN n + 1 ELSE n

\* content is set: currentEstimated is computed and the while loop is tested
EnrichLoop(m, text) ==
  LET title == m.generatedOutline.chapters[m.i + 1].title
      est   == estimatePageCount(
                 Append(m.chapters, Chapter(title, text, Undefined, NoChart)),
                 pdfOptions)
      m1    == [m EXCEPT !.content = text, !.currentEstimated = est]
  IN IF EnrichCondition(m1)
     THEN [m1 EXCEPT !.enrichCalls = Saturate(@), !.pc = "enrich"]
     ELSE Illustrate(m1)

\* the positions of handleGenerate at an await
Awaiting == {"outline", "chapter", "enrich", "image", "pdf"}

\* what belongs to one activation of handleGenerate: its locals and what is
\* observed of it (runs is its number)
ActivationFields ==
  {"pc", "topicArg", "isPrototype", "finalTarget", "generatedOutline",
   "pagesPerChapter", "chapters", "i", "content", "currentEstimated", "image",
   "runs", "calls", "enrichCalls", "imageCalls", "updates", "failCause"}
Activation(m) == [f \in ActivationFields |-> m[f]]

\* handleGenerate up to the await of generateOutline; an activation still
\* at an await goes on beside the new one
Begin(m, topic, target, proto) ==
  [m EXCEPT !.state = "outline", !.error = Null, !.outline = NoOutline,
            !.generatedChapters = <<>>, !.currentChapterIndex = 0,
            !.shown = m.runs + 1,
            !.stale = IF m.pc \in Awaiting THEN @ \cup {Activation(m)} ELSE @,
            !.marketingAssets = NoAssets, !.estimatedPages = 0,
            !.fileSizeMB = 0,
            !.pc = "outline", !.topicArg = topic, !.isPrototype = proto,
            !.finalTarget = target, !.generatedOutline = NoOutline,
            !.pagesPerChapter = Num(0), !.chapters = <<>>, !.i = 0,
            !.content = <<>>, !.currentEstimated = 0, !.image = Undefined,
            !.runs = @ + 1,
            !.calls = [NoCalls EXCEPT !.outline = 1], !.enrichCalls = 0,
            !.imageCalls = [k \in 1..Len(m.imageCalls) |-> 0],
            !.updates = <<>>, !.failCause = "none"]

\* the button is disabled while state is 'outline' or 'content'; while
\* createPDF's promise is awaited no event is handled
CanClick == state \notin {"outline", "content"} /\ pc # "pdf"

HandleGenerateEmptyTopic(topic) ==
  /\ CanClick
  /\ TopicRejected(topic)
  /\ Commit(Cur)

HandleGenerateOutOfRange(topic, customPages, targetPages) ==
  /\ CanClick
  /\ ~TopicRejected(topic)
  /\ TargetRejected(FinalTarget(customPages, targetPages))
  /\ Commit([Cur EXCEPT
       !.error = "Le nombre de pages doit etre compris entre 10 et 200."])

HandleGenerateStart(topic, customPages, targetPages, proto) ==
  /\ CanClick
  /\ ~TopicRejected(topic)
  /\ ~TargetRejected(FinalTarget(customPages, targetPages))
  /\ Commit(Begin(Cur, topic, FinalTarget(customPages, targetPages), proto))

HandleGenerate ==
  \E topic \in TopicInputs :
    \/ HandleGenerateEmptyTopic(topic)
    \/ \E customPages \in CustomPagesInputs, targetPages \in TargetPagesInputs :
         \/ HandleGenerateOutOfRange(topic, customPages, targetPages)
         \/ \E proto \in BOOLEAN :
              /\ runs < MaxRuns
              /\ HandleGenerateStart(topic, customPages, targetPages, proto)

\* generateOutline's call to the backend throws
OutlineThrows ==
  /\ pc = "outline"
  /\ Commit(Catch(Cur, "outline_call"))

\* response.text does not parse
OutlineUnparsable ==
  /\ pc = "outline"
  /\ Commit(Catch(Cur, "outline_parse"))

\* generateOutline returns value: setOutline, setState('content'),
\* pagesPerChapter, and the loop is entered
Planned(m, value) ==
  LET m1 == [m EXCEPT !.generatedOutline = value, !.outline = value,
                      !.state = "content"]
  IN IF value.kind # "outline"
     THEN Catch(m1, "outline_shape")
     ELSE StartChapter(
            [m1 EXCEPT !.pagesPerChapter =
               NumCeilDiv(m1.finalTarget, Len(value.chapters))], 0)

OutlineReturns(value) ==
  /\ pc = "outline"
  /\ Commit(Planned(Cur, value))

ChapterThrows ==
  /\ pc = "chapter"
  /\ Commit(Catch(Cur, "chapter_call"))

ChapterReturns(text) ==
  /\ pc = "chapter"
  /\ Commit(EnrichLoop(Cur, generateChapterContent(text)))

RefineThrows ==
  /\ pc = "enrich"
  /\ Commit(Catch(Cur, "refine_call"))

RefineReturns(text) ==
  /\ pc = "enrich"
  /\ Commit(EnrichLoop(Cur, refineText(text, content)))

\* generateImage throws (the call fails, or the answer holds no image)
ImageThrows ==
  /\ pc = "image"
  /\ Commit(PushChapter([Cur EXCEPT !.image = Undefined]))

ImageReturns ==
  /\ pc = "image"
  /\ Commit(PushChapter([Cur EXCEPT !.image = ImageData]))

\* pdfBlob.size / (1024 * 1024), kept as a positive size
BlobSize(chs) == 1 + Len(chs)

\* createPDF's promise resolves: setFileSizeMB, the download, setState('done')
Delivered(m) ==
  [m EXCEPT !.fileSizeMB = BlobSize(m.chapters), !.state = "done",
            !.pc = "done"]

PdfReturns ==
  /\ pc = "pdf"
  /\ Commit(Delivered(Cur))

\* the drawing layer throws inside createPDF
PdfThrows ==
  /\ pc = "pdf"
  /\ Commit(Catch(Cur, "pdf"))

\* generateMarketingAssets(...).then(setMarketingAssets): the promise of run r
\* settles, after the synchronous part and its microtasks are over
MarketingReturns(r) ==
  /\ r \in mkPending
  /\ pc # "pdf"
  /\ Commit([Cur EXCEPT !.mkPending = @ \ {r},
                        !.marketingAssets = [kind |-> "assets", run |-> r]])

\* JSON.parse fails: the promise resolves to null
MarketingUnparsable(r) ==
  /\ r \in mkPending
  /\ pc # "pdf"
  /\ Commit([Cur EXCEPT !.mkPending = @ \ {r}, !.marketingAssets = NoAssets])

\* a variant in which the rejection of the marketing promise reaches the
\* catch block of handleGenerate
MarketingThrowsFatal(r) ==
  /\ r \in mkPending
  /\ pc # "pdf"
  /\ Commit(Catch([Cur EXCEPT !.mkPending = @ \ {r}], "marketing"))

\* the backend call throws: the promise rejects, no handler is attached
MarketingThrows(r) ==
  /\ r \in mkPending
  /\ pc # "pdf"
  /\ Commit([Cur EXCEPT !.mkPending = @ \ {r}])

\* no editor call was made
NoEdit == [kind |-> "none", index |-> 0, outcome |-> "none", sent |-> <<>>,
           answer |-> <<>>, before |-> <<>>, after |-> <<>>]
EditIdle ==
  /\ edPending = {}
  /\ edStarted = 0
  /\ edLast = NoEdit
  /\ dlLast = "none"

\* createPDF was not called by hand
RenderIdle ==
  /\ rChapters = <<>>
  /\ rOptions = DefaultOptions
  /\ rLayer = EstimatorLayer
  /\ rDoc = NewDoc(EstimatorLayer)
  /\ rSteps = 0

PipelineInit ==
  /\ state = "idle"
  /\ error = Null
  /\ outline = NoOutline
  /\ currentChapterIndex = 0
  /\ generatedChapters = <<>>
  /\ marketingAssets = NoAssets
  /\ estimatedPages = 0
  /\ fileSizeMB = 0
  /\ pc = "idle"
  /\ topicArg = <<>>
  /\ isPrototype = TRUE
  /\ finalTarget = Num(10)
  /\ generatedOutline = NoOutline
  /\ pagesPerChapter = Num(0)
  /\ chapters = <<>>
  /\ i = 0
  /\ content = <<>>
  /\ currentEstimated = 0
  /\ image = Undefined
  /\ mkPending = {}
  /\ stale = {}
  /\ shown = 0
  /\ runs = 0
  /\ calls = NoCalls
  /\ enrichCalls = 0
  /\ imageCalls = [k \in 1..MaxChapters |-> 0]
  /\ updates = <<>>
  /\ failCause = "none"

\* in Spec the estimator is only called by handleGenerate
Init ==
  /\ PipelineInit
  /\ eChapters = <<>>
  /\ eOptions = DefaultOptions
  /\ eIndex = 0
  /\ ePages = 0
  /\ eBefore = <<>>
  /\ ePagesBefore = 0
  /\ eOp = "none"
  /\ eSteps = 0
  /\ EditIdle
  /\ RenderIdle

\* a pending await is resumed
Resume ==
  \/ OutlineThrows
  \/ OutlineUnparsable
  \/ \E value \in OutlineValues : OutlineReturns(value)
  \/ ChapterThrows
  \/ \E text \in ChapterTexts : ChapterReturns(text)
  \/ RefineThrows
  \/ \E text \in RefineTexts : RefineReturns(text)
  \/ ImageThrows
  \/ ImageReturns
  \/ PdfReturns
  \/ PdfThrows

Marketing ==
  \E r \in 1..MaxRuns :
    \/ MarketingReturns(r)
    \/ MarketingUnparsable(r)
    \/ MarketingThrows(r)

Next == HandleGenerate \/ Resume \/ Marketing

Spec == Init /\ [][Next]_vars

FairSpec == Spec /\ WF_vars(Resume)

----------------------------------------------------------------------------
(* EstSpec: estimatePageCount on bounded chapter lists.  One chapter of   *)
(* the list, eChapters[eIndex], is then edited: a character is appended   *)
(* to its content, an image or a chart is attached to it.                 *)

\* 40 blank paragraphs and a full line: 232 mm, one page
BlankLinesText == R("\n", 80) \o R("a", 680)
\* the same followed by a blank paragraph: 237 mm, exactly one page
ExactPageText == R("\n", 80) \o R("a", 680) \o R("\n", 2)

\* contents of the chapter that is edited
EstContents == { <<>>, R("a", 680), BlankLinesText, ExactPageText, PageyText }

\* the chapters held fixed
EstOthers ==
  { Chapter("o", <<>>, Undefined, NoChart),
    Chapter("o", PageyText, ImageData, SomeChart) }

EstOptions == { DefaultOptions, [DefaultOptions EXCEPT !.watermark = "DRAFT"] }

\* what may be appended to a content
EstChars == { "a", " ", "\n" }

EstInit ==
  /\ PipelineInit
  /\ eOptions \in EstOptions
  /\ \E n \in 0..MaxEstChapters :
       \/ n = 0 /\ eChapters = <<>> /\ eIndex = 0
       \/ /\ n > 0
          /\ eIndex \in 1..n
          /\ \E c \in EstContents, others \in [1..n -> EstOthers] :
               eChapters = [k \in 1..n |->
                  IF k = eIndex THEN Chapter("e", c, Undefined, NoChart)
                  ELSE others[k]]
  /\ ePages = estimatePageCount(eChapters, eOptions)
  /\ eBefore = eChapters
  /\ ePagesBefore = ePages
  /\ eOp = "estimate"
  /\ eSteps = 0
  /\ EditIdle
  /\ RenderIdle

\* the list is edited and estimated again
EstEdit(op, chs) ==
  /\ eSteps < MaxEdits
  /\ eSteps' = eSteps + 1
  /\ eOp' = op
  /\ eBefore' = eChapters
  /\ ePagesBefore' = ePages
  /\ eChapters' = chs
  /\ ePages' = estimatePageCount(chs, eOptions)
  /\ UNCHANGED <<eOptions, eIndex, reactVars, runVars, mkPending, obsVars,
                 editVars, sessionVars, renderVars>>

EstAppendChar(c) ==
  /\ eIndex > 0
  /\ EstEdit("append", [eChapters EXCEPT ![eIndex].content = AppendChar(@, c)])

EstAttachImage ==
  /\ eIndex > 0
  /\ ~Truthy(eChapters[eIndex].image)
  /\ EstEdit("image", [eChapters EXCEPT ![eIndex].image = ImageData])

EstAttachChart ==
  /\ eIndex > 0
  /\ ~eChapters[eIndex].chart.defined
  /\ EstEdit("chart", [eChapters EXCEPT ![eIndex].chart = SomeChart])

EstNext ==
  \/ \E c \in EstChars : EstAppendChar(c)
  \/ EstAttachImage
  \/ EstAttachChart

EstSpec == EstInit /\ [][EstNext]_vars

----------------------------------------------------------------------------
(* RenderSpec: createPDF on bounded chapter lists, options and drawing     *)
(* layers; the list then grows and the color changes, and the document is  *)
(* rendered again.                                                         *)

\* 2000 newlines: 1001 empty paragraphs
BlankText == R("\n", 2000)

RenderChapterInputs ==
  { Chapter("c", <<>>, Undefined, NoChart),
    Chapter("c", ShortText, ImageData, NoChart),
    Chapter("c", PageyText, Undefined, NoChart),
    Chapter("c", LongText, ImageData, SomeChart),
    Chapter("c", BlankText, Undefined, NoChart) }

\* the palette of the design tab, and strings that are not #rrggbb
RenderColors == { "#4f46e5", "#059669", "#fff", "red", "#12345" }

RenderLayers == { EstimatorLayer, WideLayer, LaxLayer }

RenderInit ==
  /\ PipelineInit
  /\ eChapters = <<>>
  /\ eOptions = DefaultOptions
  /\ eIndex = 0
  /\ ePages = 0
  /\ eBefore = <<>>
  /\ ePagesBefore = 0
  /\ eOp = "none"
  /\ eSteps = 0
  /\ EditIdle
  /\ rChapters \in {<<>>} \cup {<<c>> : c \in RenderChapterInputs}
  /\ rOptions \in {[DefaultOptions EXCEPT !.primaryColor = c] : c \in RenderColors}
  /\ rLayer \in RenderLayers
  /\ rDoc = createPDF("T", rChapters, rOptions, rLayer)
  /\ rSteps = 0

\* createPDF is called with a new list and new options
RenderAgain(chs, options) ==
  /\ rSteps < MaxRenders
  /\ rSteps' = rSteps + 1
  /\ rChapters' = chs
  /\ rOptions' = options
  /\ rDoc' = createPDF("T", chs, options, rLayer)
  /\ UNCHANGED <<rLayer, reactVars, runVars, mkPending, obsVars, estVars,
                 editVars, sessionVars>>

RenderAppendChapter(chapter) ==
  /\ Len(rChapters) < MaxRenderChapters
  /\ RenderAgain(Append(rChapters, chapter), rOptions)

RenderRecolor(color) ==
  /\ color # rOptions.primaryColor
  /\ RenderAgain(rChapters, [rOptions EXCEPT !.primaryColor = color])

RenderNext ==
  \/ \E chapter \in RenderChapterInputs : RenderAppendChapter(chapter)
  \/ \E color \in RenderColors : RenderRecolor(color)

RenderSpec == RenderInit /\ [][RenderNext]_vars

----------------------------------------------------------------------------
(* EditSpec: the editor handlers handleRefine and addFAQ, on the chapter   *)
(* list a finished prototype run leaves.  A handler is two steps: up to    *)
(* its await, and from the answer on.  The buttons stay reachable from the *)
(* keyboard while a call is in flight, so the calls interleave.  A handler *)
(* writes the content into the chapter object itself, which every copy of  *)
(* the list shares: the list it sets holds the current contents.           *)

\* response.text of refineText and of generateFAQ in the editor
EditRefineTexts == { <<>>, ShortText }
FaqTexts == { <<>>, R("a", 3), R("\n", 1) \o R("a", 2) }

\* "\n\n### Foire Aux Questions\n", letters written "a"
FaqHeading ==
  R("\n", 2) \o R("#", 3) \o R(" ", 1) \o R("a", 5) \o R(" ", 1) \o R("a", 3)
  \o R(" ", 1) \o R("a", 9) \o R("\n", 1)

\* return response.text || ""
generateFAQ(text) == text

\* the state a prototype run of Len(texts) chapters ends in, every image
\* and the marketing assets delivered
AfterRun(texts) ==
  LET n   == Len(texts)
      chs == [k \in 1..n |-> Chapter(ToString(k), texts[k], ImageData, NoChart)]
  IN /\ state = "done"
     /\ error = Null
     /\ outline = OutlineOf(n, 0)
     /\ currentChapterIndex = n - 1
     /\ generatedChapters = chs
     /\ marketingAssets = [kind |-> "assets", run |-> 1]
     /\ estimatedPages = estimatePageCount(chs, pdfOptions)
     /\ fileSizeMB = 1 + n
     /\ pc = "done"
     /\ topicArg = R("a", 2)
     /\ isPrototype = TRUE
     /\ finalTarget = Num(10)
     /\ generatedOutline = OutlineOf(n, 0)
     /\ pagesPerChapter = Num(CeilDiv(10, n))
     /\ chapters = chs
     /\ i = n
     /\ content = texts[n]
     /\ currentEstimated =
          estimatePageCount([chs EXCEPT ![n].image = Undefined], pdfOptions)
     /\ image = ImageData
     /\ mkPending = {}
     /\ stale = {}
     /\ shown = 1
     /\ runs = 1
     /\ calls = [outline |-> 1, chapter |-> n, image |-> n, marketing |-> 1,
                 pdf |-> 1]
     /\ enrichCalls = 0
     /\ imageCalls = [k \in 1..MaxChapters |-> IF k <= n THEN 1 ELSE 0]
     /\ updates = [k \in 1..n |->
          [chapters |-> SubSeq(chs, 1, k),
           pages |-> estimatePageCount(SubSeq(chs, 1, k), pdfOptions),
           state |-> "content"]]
     /\ failCause = "none"

EditInit ==
  /\ \E n \in 1..MaxEditChapters : \E texts \in [1..n -> ChapterTexts] :
       AfterRun(texts)
  /\ eChapters = <<>>
  /\ eOptions = DefaultOptions
  /\ eIndex = 0
  /\ ePages = 0
  /\ eBefore = <<>>
  /\ ePagesBefore = 0
  /\ eOp = "none"
  /\ eSteps = 0
  /\ EditIdle
  /\ RenderIdle

\* what an editor step leaves alone
EditFrame ==
  UNCHANGED <<error, outline, marketingAssets, estimatedPages, fileSizeMB,
              pc, topicArg, isPrototype, finalTarget, generatedOutline,
              pagesPerChapter, i, content, currentEstimated, image,
              mkPending, obsVars, estVars, dlLast, renderVars>>

\* the editor shows generatedChapters[currentChapterIndex]: its buttons exist
\* when there is such a chapter; while createPDF's promise is awaited no
\* event is handled
EditorShown == currentChapterIndex < Len(generatedChapters) /\ pc # "pdf"

\* onClick={() => setCurrentChapterIndex(i)}
SelectChapter(k) ==
  /\ EditorShown
  /\ k # currentChapterIndex
  /\ currentChapterIndex' = k
  /\ UNCHANGED <<state, generatedChapters, chapters, edPending, edStarted,
                 edLast, sessionVars>>
  /\ EditFrame

\* an editor handler up to its await: setState('refining'), the call made
\* with the content of chapter index.  The handler keeps the list of the
\* render it was created in (list, the chapter objects of run).
EditorCall(kind) ==
  /\ EditorShown
  /\ edStarted < MaxEditorCalls
  /\ state' = "refining"
  /\ edStarted' = edStarted + 1
  /\ edPending' = edPending \cup
       {[id |-> edStarted + 1, kind |-> kind, index |-> currentChapterIndex,
         sent |-> generatedChapters[currentChapterIndex + 1].content,
         list |-> generatedChapters, run |-> shown]}
  /\ UNCHANGED <<currentChapterIndex, generatedChapters, chapters, edLast,
                 sessionVars>>
  /\ EditFrame

\* the content the chapter object of the handler holds now
Held(op) == op.list[op.index + 1].content

\* chapter object index of run gets the content new, in a list of the
\* chapter objects of run chs
Written(chs, run, op, new) ==
  IF run = op.run /\ op.index < Len(chs)
  THEN [chs EXCEPT ![op.index + 1].content = new]
  ELSE chs

\* an editor handler from the answer of its call on.  When the call has
\* answered, the chapter object gets the content new, which every list
\* holding the object shows, and the list of the handler becomes the
\* visible one; when it has failed nothing is written.  Then
\* setState('done').
EditorReturn(op, outcome, answer, new) ==
  /\ op \in edPending
  /\ pc # "pdf"
  /\ edPending' = {[o EXCEPT !.list = Written(@, o.run, op, new)] :
                     o \in edPending \ {op}}
  /\ generatedChapters' =
       IF outcome = "resolved" THEN Written(op.list, op.run, op, new)
       ELSE generatedChapters
  /\ shown' = IF outcome = "resolved" THEN op.run ELSE shown
  /\ chapters' = Written(chapters, runs, op, new)
  /\ stale' = {[a EXCEPT !.chapters = Written(@, a.runs, op, new)] : a \in stale}
  /\ state' = "done"
  /\ edLast' = [kind |-> op.kind, index |-> op.index, outcome |-> outcome,
                sent |-> op.sent, answer |-> answer,
                before |-> Held(op), after |-> new]
  /\ UNCHANGED <<currentChapterIndex, edStarted>>
  /\ EditFrame

HandleRefine == EditorCall("refine")

\* a variant that appends the refined text to the content
HandleRefineAppends(op, text) ==
  /\ op.kind = "refine"
  /\ EditorReturn(op, "resolved", refineText(text, op.sent),
                  Concat(Held(op), refineText(text, op.sent)))

\* newChapters[index].content = refined
HandleRefineResolves(op, text) ==
  /\ op.kind = "refine"
  /\ EditorReturn(op, "resolved", refineText(text, op.sent),
                  refineText(text, op.sent))

\* catch (e) {}
HandleRefineRejects(op) ==
  /\ op.kind = "refine"
  /\ EditorReturn(op, "rejected", <<>>, Held(op))

AddFAQ == EditorCall("faq")

\* a variant that puts the FAQ in the place of the content
AddFAQReplaces(op, text) ==
  /\ op.kind = "faq"
  /\ EditorReturn(op, "resolved", generateFAQ(text),
                  Concat(FaqHeading, generateFAQ(text)))

\* newChapters[index].content += "\n\n### Foire Aux Questions\n" + faq
AddFAQResolves(op, text) ==
  /\ op.kind = "faq"
  /\ EditorReturn(op, "resolved", generateFAQ(text),
                  Concat(Held(op), Concat(FaqHeading, generateFAQ(text))))

AddFAQRejects(op) ==
  /\ op.kind = "faq"
  /\ EditorReturn(op, "rejected", <<>>, Held(op))

EditNext ==
  \/ \E k \in 0..(Len(generatedChapters) - 1) : SelectChapter(k)
  \/ HandleRefine
  \/ AddFAQ
  \/ \E op \in edPending :
       \/ \E text \in EditRefineTexts : HandleRefineResolves(op, text)
       \/ HandleRefineRejects(op)
       \/ \E text \in FaqTexts : AddFAQResolves(op, text)
       \/ AddFAQRejects(op)

EditSpec == EditInit /\ [][EditNext]_vars

----------------------------------------------------------------------------
(* SessionSpec: the component after a finished run, with the generate      *)
(* button and the editor both in use.  The button is disabled by the state *)
(* only, so handleGenerate can be started while an editor call or an       *)
(* earlier activation of handleGenerate is at an await; the earlier        *)
(* activation then goes on with its own locals, on the same React state.   *)

\* outlines and chapter texts the backend returns in SessionSpec
SessionOutlines == { OutlineOf(n, 0) : n \in 1..MaxSessionChapters }
SessionTexts == { ShortText }

\* activation a of handleGenerate as it finds the React state now
Merge(a) ==
  [f \in DOMAIN Cur |-> IF f \in ActivationFields THEN a[f] ELSE Cur[f]]

\* what the await of an activation may resume with
Resumptions(m) ==
  CASE m.pc = "outline" ->
         {Catch(m, "outline_call")} \cup {Planned(m, v) : v \in SessionOutlines}
    [] m.pc = "chapter" ->
         {Catch(m, "chapter_call")}
         \cup {EnrichLoop(m, generateChapterContent(t)) : t \in SessionTexts}
    [] m.pc = "enrich" ->
         {Catch(m, "refine_call")}
         \cup {EnrichLoop(m, refineText(t, m.content)) : t \in SessionTexts}
    [] m.pc = "image" ->
         {PushChapter([m EXCEPT !.image = Undefined]),
          PushChapter([m EXCEPT !.image = ImageData])}
    [] OTHER -> {}

\* createPDF has no await of its own: an activation that reaches it goes on
\* to its end before any other event is handled
Through(m) == IF m.pc = "pdf" THEN {Delivered(m), Catch(m, "pdf")} ELSE {m}

\* the React state as activation a leaves it at r, the latest activation
\* keeping its locals
Settled(a, r) ==
  [[f \in DOMAIN Cur |-> IF f \in ActivationFields THEN Cur[f] ELSE r[f]]
     EXCEPT !.stale = (stale \ {a})
                      \cup (IF r.pc \in Awaiting THEN {Activation(r)} ELSE {})]

\* the await of a superseded activation is resumed
StaleResume ==
  /\ pc # "pdf"
  /\ \E a \in stale : \E r1 \in Resumptions(Merge(a)) : \E r \in Through(r1) :
       Commit(Settled(a, r))

\* the button, with a topic and the preset of 10 pages, in prototype mode
SessionGenerate ==
  /\ runs < MaxSessionRuns
  /\ HandleGenerateStart(R("a", 2), <<>>, PAGE_PRESETS[1], TRUE)

SessionResume ==
  \/ OutlineThrows
  \/ \E value \in SessionOutlines : OutlineReturns(value)
  \/ ChapterThrows
  \/ \E text \in SessionTexts : ChapterReturns(text)
  \/ ImageThrows
  \/ ImageReturns
  \/ PdfReturns
  \/ PdfThrows

SessionMarketing ==
  \E r \in 1..MaxSessionRuns :
    \/ MarketingReturns(r)
    \/ MarketingUnparsable(r)
    \/ MarketingThrows(r)

\* the editor, for a bounded number of calls
SessionEdit == EditNext /\ edStarted' <= MaxSessionEdits

SessionNext ==
  \/ SessionGenerate
  \/ SessionResume
  \/ StaleResume
  \/ SessionMarketing
  \/ SessionEdit

\* after a prototype run of one chapter
SessionInit ==
  /\ AfterRun(<<PageyText>>)
  /\ eChapters = <<>>
  /\ eOptions = DefaultOptions
  /\ eIndex = 0
  /\ ePages = 0
  /\ eBefore = <<>>
  /\ ePagesBefore = 0
  /\ eOp = "none"
  /\ eSteps = 0
  /\ EditIdle
  /\ RenderIdle

SessionSpec == SessionInit /\ [][SessionNext]_vars

----------------------------------------------------------------------------
(* DownloadSpec: handleDownload between the steps of handleGenerate *)

\* what handleDownload leaves alone: it writes the state and nothing else
DownloadFrame ==
  UNCHANGED <<error, outline, currentChapterIndex, generatedChapters,
              marketingAssets, estimatedPages, fileSizeMB, runVars, mkPending,
              obsVars, estVars, edPending, edStarted, edLast, sessionVars,
              renderVars>>

\* if (!outline) return; while createPDF's promise is awaited no event is
\* handled
HandleDownloadStart ==
  /\ outline.kind # "null"
  /\ pc # "pdf"

\* setState('pdf'), createPDF resolves, the link is clicked, setState('done')
HandleDownloadReturns ==
  /\ HandleDownloadStart
  /\ outline.kind = "outline"
  /\ state' = "done"
  /\ dlLast' = "saved"
  /\ DownloadFrame

\* setState('pdf'), then createPDF throws or outline.title is undefined:
\* nothing catches it and the rest of the handler is not run
HandleDownloadThrows ==
  /\ HandleDownloadStart
  /\ state' = "pdf"
  /\ dlLast' = "failed"
  /\ DownloadFrame

HandleDownload ==
  \/ HandleDownloadReturns
  \/ HandleDownloadThrows

\* the answers of SessionResume, and the outline that is an empty object
DownloadResume ==
  \/ SessionResume
  \/ OutlineReturns(EmptyObject)

DownloadNext ==
  \/ SessionGenerate
  \/ DownloadResume
  \/ StaleResume
  \/ SessionMarketing
  \/ HandleDownload

DownloadSpec == SessionInit /\ [][DownloadNext]_vars

----------------------------------------------------------------------------
(* Properties of handleGenerate (Spec, FairSpec) *)

\* the chapter indices below n for which the claim C6 expects an image
ImagesExpected(proto, n) ==
  Cardinality({k \in 0..(n - 1) : k % (IF proto THEN 1 ELSE 3) = 0})

\* C1: a handleGenerate run ends either in state 'done' with a non-empty
\* chapter list as long as the outline's chapter list, or in state 'error'
\* with the chapters accumulated before the failure left as they were.
C1_RunEndsDoneOrError ==
  /\ pc = "done" =>
       /\ state = "done"
       /\ Len(generatedChapters) > 0
       /\ Len(generatedChapters) = Len(generatedOutline.chapters)
  /\ pc = "failed" =>
       /\ state = "error"
       /\ generatedChapters = chapters

\* a target page count within [10,200]
InRange(target) == target.kind = "int" /\ target.v >= 10 /\ target.v <= 200

\* C2: an invocation of handleGenerate with an empty (whitespace-only) topic
\* or a target page count not within [10,200] makes no backend call and
\* leaves outline, chapter list, marketing assets, estimated pages and file
\* size as they were.
C2_InvalidInputRejected ==
  [][\A topic \in TopicInputs, customPages \in CustomPagesInputs,
        targetPages \in TargetPagesInputs, proto \in BOOLEAN :
       ( /\ \/ Trim(topic) = <<>>
            \/ ~InRange(FinalTarget(customPages, targetPages))
         /\ \/ HandleGenerateEmptyTopic(topic)
            \/ HandleGenerateOutOfRange(topic, customPages, targetPages)
            \/ HandleGenerateStart(topic, customPages, targetPages, proto) )
       => /\ pc' = pc /\ runs' = runs /\ calls' = calls
          /\ UNCHANGED <<outline, generatedChapters, marketingAssets,
                         estimatedPages, fileSizeMB>>]_vars

\* C3: when the outline call, a chapter-content call or an enrichment call
\* has failed, the state is 'error' with a message, the visible chapter list
\* is the list of the chapters completed before the failure (empty when the
\* outline failed), and the calls made are exactly those made up to the
\* failure: one outline call, one chapter call per completed chapter plus
\* the failed one, one image call per completed chapter that wants one, no
\* marketing call and no createPDF.
C3_FailureStopsPipeline ==
  (pc = "failed" /\ failCause # "pdf") =>
    /\ state = "error"
    /\ error \notin {Null, ""}
    /\ generatedChapters = chapters
    /\ Len(updates) = Len(chapters)
    /\ failCause \in {"outline_call", "outline_parse", "outline_shape"}
         => generatedChapters = <<>> /\ calls.chapter = 0
    /\ calls.outline = 1
    /\ calls.chapter = Len(chapters)
         + (IF failCause \in {"chapter_call", "refine_call"} THEN 1 ELSE 0)
    /\ calls.image = ImagesExpected(isPrototype, Len(chapters))
    /\ calls.marketing = 0
    /\ calls.pdf = 0
    /\ runs \notin mkPending

\* an enrichment call failed after the first chapter was completed
C3_Witness ==
  /\ pc = "failed"
  /\ failCause = "refine_call"
  /\ Len(generatedChapters) >= 1

\* C4: in non-prototype mode the enrichment loop of a chapter terminates:
\* whatever the backend returns, the pipeline leaves the loop.
C4_EnrichmentTerminates == (pc = "enrich") ~> (pc # "enrich")

\* C5: in prototype mode no enrichment call is made.
C5_PrototypeNeverEnriches ==
  (runs > 0 /\ isPrototype) => (pc # "enrich" /\ enrichCalls = 0)

\* a prototype run is done with short chapters and an estimate under the
\* target: the enrichment condition of normal mode holds of its last chapter
C5_Witness ==
  /\ pc = "done"
  /\ isPrototype
  /\ Len(chapters) >= 2
  /\ finalTarget = Num(10)
  /\ estimatedPages < Len(chapters) * pagesPerChapter.v
  /\ StrLength(chapters[Len(chapters)].content) < 15000

\* C6: for chapter index k the pipeline requests one image when k mod N = 0
\* and none otherwise (N = 1 in prototype mode, 3 in normal mode); whatever
\* the image call answers, the chapter is appended, without an image when
\* the call failed, and the pipeline is not aborted.
C6_ImagePerChapter ==
  runs > 0 =>
    /\ \A k \in 1..Len(chapters) :
         /\ imageCalls[k] =
              (IF (k - 1) % (IF isPrototype THEN 1 ELSE 3) = 0 THEN 1 ELSE 0)
         /\ imageCalls[k] = 0 => chapters[k].image = Undefined
    /\ \A k \in (Len(chapters) + 1)..Len(imageCalls) :
         /\ imageCalls[k] <= 1
         /\ imageCalls[k] = 1 => (pc = "image" /\ i = k - 1)
    /\ calls.image = ImagesExpected(isPrototype,
                       Len(chapters) + (IF pc = "image" THEN 1 ELSE 0))

\* a normal run of four chapters is done: the image of chapter 0 failed,
\* chapters 1 and 2 asked for none, chapter 3 has its image
C6_Witness ==
  /\ pc = "done"
  /\ ~isPrototype
  /\ Len(chapters) = 4
  /\ chapters[1].image = Undefined
  /\ chapters[4].image = ImageData
  /\ imageCalls = <<1, 0, 0, 1>>

\* C7: chapters are generated in outline order, one at a time: the calls for
\* chapter i are made when exactly i chapters are appended, and the k-th
\* progress update carries the first k chapters, titled as in the outline,
\* with estimatePageCount of those k chapters.
C7_ChaptersInOrder ==
  /\ Len(updates) = Len(chapters)
  /\ \A k \in 1..Len(updates) :
       /\ Len(updates[k].chapters) = k
       /\ \A j \in 1..k :
            updates[k].chapters[j].title = generatedOutline.chapters[j].title
       /\ k > 1 => SubSeq(updates[k].chapters, 1, k - 1) = updates[k - 1].chapters
       /\ updates[k].pages = estimatePageCount(updates[k].chapters, pdfOptions)
  /\ Len(updates) > 0 =>
       /\ generatedChapters = updates[Len(updates)].chapters
       /\ estimatedPages = updates[Len(updates)].pages
  /\ pc \in {"chapter", "enrich", "image"} =>
       /\ i = Len(chapters)
       /\ calls.chapter = i + 1

\* the fourth chapter is requested after three updates
C7_Witness ==
  /\ pc = "chapter"
  /\ Len(updates) = 3
  /\ i = 3

\* C13: the marketing call is fire-and-forget: rendering ends, in 'done' or
\* in 'error', while the marketing call of the run is still in flight; and
\* a marketing call that fails or answers unparsable content changes neither
\* the pipeline state nor the error, and leaves the marketing assets null
\* (a failure sets nothing, an unparsable answer sets null).
C13_MarketingFireAndForget ==
  [][/\ (pc = "pdf" /\ pc' # "pdf") =>
          /\ runs \in mkPending /\ mkPending' = mkPending
          /\ marketingAssets' = marketingAssets
     /\ \A r \in 1..(MaxRuns + 1) :
          (MarketingThrows(r) \/ MarketingUnparsable(r)) =>
            /\ state' = state /\ error' = error /\ pc' = pc
            /\ failCause' = failCause
            /\ generatedChapters' = generatedChapters
            /\ marketingAssets = NoAssets => marketingAssets' = NoAssets
            /\ MarketingUnparsable(r) => marketingAssets' = NoAssets]_vars

\* the run is done and its marketing call has failed: no assets, no error
C13_Witness ==
  /\ pc = "done"
  /\ state = "done"
  /\ Len(generatedChapters) >= 1
  /\ calls.marketing = 1
  /\ mkPending = {}
  /\ marketingAssets = NoAssets
  /\ error = Null

\* C19: every validation error and every transport error of the outline and
\* chapter calls moves the state to 'error' with a message; in particular a
\* handleGenerate that rejects an out-of-range page count leaves the state
\* 'error'.
C19_ErrorsEnterErrorState ==
  [][/\ (OutlineThrows \/ OutlineUnparsable \/ ChapterThrows) =>
          (state' = "error" /\ error' \notin {Null, ""})
     /\ \A topic \in TopicInputs, customPages \in CustomPagesInputs,
           targetPages \in TargetPagesInputs :
          HandleGenerateOutOfRange(topic, customPages, targetPages) =>
            (state' = "error" /\ error' \notin {Null, ""})]_vars

\* C20: in normal mode an enrichment call for chapter i is in flight only
\* when the estimate over chapters 0..i is below (i+1)*pagesPerChapter and
\* the content is shorter than 15000 characters, with pagesPerChapter =
\* ceil(target / chapter count); and once the loop of chapter i has exited,
\* that estimate is at least (i+1)*pagesPerChapter or the content has at
\* least 15000 characters.
C20_EnrichmentBounds ==
  LET ppc == pagesPerChapter
      \* the estimate the loop computes for the k-th chapter (1-based) with
      \* content c
      Est(k, title, c) ==
        estimatePageCount(
          Append(SubSeq(chapters, 1, k - 1), Chapter(title, c, Undefined, NoChart)),
          pdfOptions)
      Exited(k, title, c) ==
        \/ ppc.kind = "int" /\ Est(k, title, c) >= k * ppc.v
        \/ StrLength(c) >= 15000
  IN (runs > 0 /\ ~isPrototype /\ pc \in {"chapter", "enrich", "image", "pdf", "done"}) =>
       /\ (finalTarget.kind = "int" /\ Len(generatedOutline.chapters) > 0) =>
            ppc = Num(CeilDiv(finalTarget.v, Len(generatedOutline.chapters)))
       /\ pc = "enrich" =>
            /\ ppc.kind = "int"
            /\ currentEstimated < (i + 1) * ppc.v
            /\ StrLength(content) < 15000
            /\ currentEstimated =
                 Est(i + 1, generatedOutline.chapters[i + 1].title, content)
       /\ pc = "image" =>
            Exited(i + 1, generatedOutline.chapters[i + 1].title, content)
       /\ \A k \in 1..Len(chapters) :
            Exited(k, chapters[k].title, chapters[k].content)

\* C24: when a run that is not a prototype has reached 'done' and the content
\* of its last chapter is shorter than 15,000 characters, the page estimate
\* shown is at least the target of the run.
C24_FinalEstimateReachesTarget ==
  (/\ pc = "done"
   /\ ~isPrototype
   /\ chapters # <<>>
   /\ StrLength(chapters[Len(chapters)].content) < 15000)
  => (finalTarget.kind = "int" /\ estimatedPages >= finalTarget.v)

----------------------------------------------------------------------------
(* Properties of estimatePageCount (EstSpec) *)

\* C8: estimatePageCount of an empty chapter list is 2, for any options.
C8_EmptyListIsTwoPages == eChapters = <<>> => ePages = 2

\* the empty list was estimated under options other than the default
C8_Witness ==
  /\ eChapters = <<>>
  /\ eOp = "estimate"
  /\ eOptions # DefaultOptions

\* C9: lengthening a chapter's content by appending characters, or adding an
\* image or a chart to it, never lowers estimatePageCount, the other
\* chapters held fixed.
C9_EstimateMonotone ==
  eOp \in {"append", "image", "chart"} => ePages >= ePagesBefore

\* C10: attaching chart data to a chapter raises estimatePageCount by
\* exactly 1 over the same list without that chart.
C10_ChartAddsOnePage ==
  eOp = "chart" =>
    /\ eBefore = [eChapters EXCEPT ![eIndex].chart = NoChart]
    /\ ePages = ePagesBefore + 1

\* a chart was attached to a chapter whose content fills exactly one page
C10_Witness ==
  /\ eOp = "chart"
  /\ eChapters[eIndex].chart.defined
  /\ ChapterCurrentY16(eChapters[eIndex]) = contentHeightPerPage * 16

\* the height of the paragraphs that are not blank, each
\* ceil(length * 0.25 / usableWidth) * lineHeight + 5
RECURSIVE NonTrivialHeight(_)
NonTrivialHeight(ps) ==
  IF ps = <<>> THEN 0
  ELSE (IF ps[1].blank THEN 0
        ELSE ps[1].count * (CeilDiv(ps[1].len, 4 * maxLineWidth) * lineHeight + 5))
       + NonTrivialHeight(Tail(ps))

\* C21: the height the estimator gives a chapter is 20 mm, the image when
\* there is one, and the heights of its paragraphs that are not blank: a
\* blank paragraph adds nothing.
C21_BlankParagraphsAddNothing ==
  \A k \in 1..Len(eChapters) :
    ChapterCurrentY16(eChapters[k]) =
      20 * 16
      + (IF Truthy(eChapters[k].image) THEN maxLineWidth * 9 + 10 * 16 ELSE 0)
      + 16 * NonTrivialHeight(SplitParagraphs(eChapters[k].content))

----------------------------------------------------------------------------
(* Properties of the editor handlers (EditSpec) *)

\* the first n characters of s, and s without them
RECURSIVE StrTake(_, _)
StrTake(s, n) ==
  IF n = 0 \/ s = <<>> THEN <<>>
  ELSE IF s[1].n <= n THEN <<s[1]>> \o StrTake(Tail(s), n - s[1].n)
  ELSE R(s[1].ch, n)

RECURSIVE StrDrop(_, _)
StrDrop(s, n) ==
  IF n = 0 \/ s = <<>> THEN s
  ELSE IF s[1].n <= n THEN StrDrop(Tail(s), n - s[1].n)
  ELSE R(s[1].ch, s[1].n - n) \o Tail(s)

\* C11: when the call of handleRefine(index, action) answers, the content of
\* chapter index becomes the text refineText returned (the answer, or the
\* text sent when the answer is empty) and nothing of the old content is
\* kept; when the call fails the chapter list is left as it is; either way
\* the state becomes 'done' and no error is set.
C11_RefineReplacesContent ==
  [][\A op \in edPending :
       /\ \A text \in EditRefineTexts :
            HandleRefineResolves(op, text) =>
              /\ generatedChapters' =
                   [generatedChapters EXCEPT ![op.index + 1].content =
                      IF text = <<>> THEN op.sent ELSE text]
              /\ state' = "done"
              /\ error' = error
       /\ HandleRefineRejects(op) =>
            /\ generatedChapters' = generatedChapters
            /\ state' = "done"
            /\ error' = error]_vars

\* a refinement answered with a text that differs from the content it found
C11_Witness ==
  /\ edLast.kind = "refine"
  /\ edLast.outcome = "resolved"
  /\ edLast.before # <<>>
  /\ edLast.answer # edLast.before
  /\ state = "done"
  /\ generatedChapters[edLast.index + 1].content = edLast.answer

\* C12: when the call of addFAQ(index) answers, the new content of chapter
\* index is the content it had as an exact prefix, then the heading
\* "\n\n### Foire Aux Questions\n", then the FAQ text; when the call fails
\* the chapter list is left as it is.
C12_FAQAppended ==
  [][\A op \in edPending :
       /\ \A text \in FaqTexts :
            AddFAQResolves(op, text) =>
              LET old == generatedChapters[op.index + 1].content
                  new == generatedChapters'[op.index + 1].content
              IN /\ Len(generatedChapters') = Len(generatedChapters)
                 /\ \A k \in 1..Len(generatedChapters) :
                      k # op.index + 1 => generatedChapters'[k] = generatedChapters[k]
                 /\ StrTake(new, StrLength(old)) = old
                 /\ StrDrop(new, StrLength(old)) = Concat(FaqHeading, text)
       /\ AddFAQRejects(op) => generatedChapters' = generatedChapters]_vars

\* an FAQ was appended to a content that ends with a visible character
C12_Witness ==
  /\ edLast.kind = "faq"
  /\ edLast.outcome = "resolved"
  /\ edLast.before # <<>>
  /\ edLast.answer # <<>>
  /\ generatedChapters[edLast.index + 1].content = edLast.after
  /\ StrLength(edLast.after) = StrLength(edLast.before) + 26 + StrLength(edLast.answer)

----------------------------------------------------------------------------
(* Properties of createPDF (RenderSpec) *)

\* C14: in a finished document every page n of 1..totalPages carries exactly
\* one stamp, 'Page n sur totalPages' with totalPages the final page count,
\* and no page was added after the first stamp was written.
C14_PageNumbersLastPass ==
  ~rDoc.failed =>
    /\ rDoc.stamped
    /\ ~rDoc.lateAdd
    /\ \A n \in 1..Len(rDoc.pages) :
         rDoc.pages[n].stamps = << <<n, Len(rDoc.pages)>> >>

\* a finished document of two chapters in which the text overflowed
C14_Witness ==
  /\ ~rDoc.failed
  /\ rDoc.stamped
  /\ Len(rChapters) = 2
  /\ Len(rDoc.pages) > 2 + Len(rChapters)

\* C15: in a rendered document addHeaderFooter was called exactly once on
\* every page but the title page, before anything was drawn on the page, and
\* never on the title page.
C15_HeaderFooterOnEveryPage ==
  ~rDoc.failed =>
    /\ rDoc.pages[1].hf = 0
    /\ \A n \in 2..Len(rDoc.pages) :
         /\ rDoc.pages[n].hf = 1
         /\ ~rDoc.pages[n].early

\* a document with a page added by the overflow of a text inside addText and
\* a chapter with image and chart
C15_Witness ==
  /\ ~rDoc.failed
  /\ rOptions.headerText # ""
  /\ \E k \in 1..Len(rChapters) :
       /\ rChapters[k].chart.defined
       /\ Cardinality({n \in 1..Len(rDoc.pages) : rDoc.pages[n].section = 1 + k}) >= 2
       /\ \E n \in 1..Len(rDoc.pages) :
            rDoc.pages[n].section = 1 + k /\ rDoc.pages[n].images = 1

\* C16: when the primary color is not '#' followed by six hex digits, the
\* render completes and the text it would have colored is drawn in black:
\* no channel that is not a number reaches setTextColor.
C16_ColorFallsBackToBlack ==
  LET chars == ColorChars(rOptions.primaryColor)
      sixHex == /\ Len(chars) = 7
                /\ chars[1] = "#"
                /\ \A c \in 2..7 : IsHexDigit(chars[c])
  IN ~sixHex =>
       /\ ~rDoc.failed
       /\ rDoc.inks = {Black}

\* C17: the pages of a rendered document are the title page, the table of
\* contents, then the chapters in list order, each chapter starting on a page
\* of its own: the page count is at least 2 + n.
C17_SectionsInOrder ==
  ~rDoc.failed =>
    LET pages == rDoc.pages
        n == Len(rChapters)
    IN /\ Len(pages) >= 2 + n
       /\ pages[1].section = 0
       /\ pages[2].section = 1
       /\ \A p \in 2..Len(pages) :
            /\ pages[p].section >= 1
            /\ pages[p].section >= pages[p - 1].section
            /\ pages[p].section <= pages[p - 1].section + 1
       /\ \A k \in 1..n : \E p \in 3..Len(pages) :
            /\ pages[p].section = 1 + k
            /\ pages[p - 1].section = k
            /\ pages[p].lines >= 1

\* a document of two chapters, the first of several pages
C17_Witness ==
  /\ ~rDoc.failed
  /\ Len(rChapters) = 2
  /\ Cardinality({p \in 1..Len(rDoc.pages) : rDoc.pages[p].section = 2}) >= 2
  /\ rDoc.pages[Len(rDoc.pages)].section = 3

\* C18: when the drawing layer wraps every paragraph to the line count
\* estimatePageCount assumes, the rendered page count is at least the
\* estimate minus a small fixed tolerance (2 pages here).
C18_RenderedAtLeastEstimate ==
  LET tolerance == 2
  IN (rLayer = EstimatorLayer /\ ~rDoc.failed) =>
       Len(rDoc.pages) >= estimatePageCount(rChapters, rOptions) - tolerance

\* the lines createPDF gives addText for chapter k: the heading, the
\* paragraphs that are not blank, the heading and the items of the chart
RECURSIVE ParagraphLineCount(_, _)
ParagraphLineCount(ps, perLine) ==
  IF ps = <<>> THEN 0
  ELSE (IF ps[1].blank THEN 0 ELSE ps[1].count * CeilDiv(ps[1].len, perLine))
       + ParagraphLineCount(Tail(ps), perLine)

ChapterLineCount(chapter, layer) ==
  layer.headingLines
  + ParagraphLineCount(SplitParagraphs(chapter.content), layer.perLine)
  + (IF chapter.chart.defined THEN 1 + Len(chapter.chart.data) ELSE 0)

RECURSIVE LinesOfSection(_, _)
LinesOfSection(pages, s) ==
  IF pages = <<>> THEN 0
  ELSE (IF pages[1].section = s THEN pages[1].lines ELSE 0)
       + LinesOfSection(Tail(pages), s)

\* C22: in a rendered document every line of the table of contents and of
\* the chapters sits at a y with margin + 15 <= y and y + lineHeight <=
\* pageHeight - margin - 10; every line given to addText is drawn once, on
\* the page where it fits; the bottom of every image is above that limit.
C22_NothingBelowTheLimit ==
  ~rDoc.failed =>
    /\ \A n \in 2..Len(rDoc.pages) :
         LET page == rDoc.pages[n]
         IN /\ page.lines > 0 =>
                 /\ topY16 <= page.top
                 /\ page.low + lineHeight * 16 <= (pageHeight - margin - 10) * 16
                 /\ page.lines <= 1 + (page.low - page.top) \div (lineHeight * 16)
            /\ page.images > 0 =>
                 page.imgLow <= (pageHeight - margin - 10) * 16
    /\ LinesOfSection(rDoc.pages, 1) = rLayer.headingLines + Len(rChapters)
    /\ \A k \in 1..Len(rChapters) :
         LinesOfSection(rDoc.pages, 1 + k) = ChapterLineCount(rChapters[k], rLayer)

\* a chapter with an image whose text fills a page to the last line that
\* fits and continues on the next page
C22_Witness ==
  /\ ~rDoc.failed
  /\ \E n \in 3..(Len(rDoc.pages) - 1) :
       /\ rDoc.pages[n].low + 2 * lineHeight * 16 > (pageHeight - margin - 10) * 16
       /\ rDoc.pages[n + 1].section = rDoc.pages[n].section
       /\ rDoc.pages[n + 1].lines > 0
  /\ \E n \in 3..Len(rDoc.pages) : rDoc.pages[n].images > 0

----------------------------------------------------------------------------
(* Properties of the component in use (SessionSpec) *)

\* C23: when a run of handleGenerate ends in 'done', the state was 'pdf'
\* just before, every chapter of the outline was appended while the state
\* was 'content', and createPDF and the marketing call were made once, after
\* the last chapter: the state went through 'outline', 'content', 'pdf',
\* 'done' with no other value in between.
C23_StateSequence ==
  [][(pc = "pdf" /\ pc' = "done") =>
       /\ state = "pdf" /\ state' = "done"
       /\ Len(updates) = Len(generatedOutline.chapters)
       /\ \A k \in 1..Len(updates) : updates[k].state = "content"
       /\ calls.pdf = 1 /\ calls.marketing = 1
       /\ calls' = calls]_vars

\* C25: at most one activation of handleGenerate is at an await.
C25_OnePipelineInFlight ==
  Cardinality(stale) + (IF pc \in Awaiting THEN 1 ELSE 0) <= 1

\* C26: when the call of an editor handler answers while the visible list
\* holds chapters, the visible list after the step has every chapter of the
\* visible list before it, and only the content of the targeted chapter
\* differs: what the pipeline appended during the call is kept.
C26_NoLostChapters ==
  [][\A op \in edPending :
       ( /\ generatedChapters # <<>>
         /\ \/ \E text \in EditRefineTexts : HandleRefineResolves(op, text)
            \/ \E text \in FaqTexts : AddFAQResolves(op, text) )
       => /\ Len(generatedChapters') = Len(generatedChapters)
          /\ \A k \in 1..Len(generatedChapters) :
               /\ generatedChapters'[k].title = generatedChapters[k].title
               /\ k # op.index + 1 => generatedChapters'[k] = generatedChapters[k]]_vars

\* C28: the marketing assets shown are those of the latest run started.
C28_AssetsOfLatestRun ==
  marketingAssets.kind = "assets" => marketingAssets.run = runs

----------------------------------------------------------------------------
(* Properties of handleDownload (DownloadSpec) *)

\* C27: a call of handleDownload with an outline present ends with the state
\* 'done' and the chapter list as it was, also when the render fails.
C27_DownloadEndsDone ==
  [][HandleDownload =>
       /\ state' = "done"
       /\ generatedChapters' = generatedChapters]_vars

====
